---- MODULE Spec2Model ----
(***************************************************************************)
(* Reward-accounting engine of the staking program                         *)
(* (programs/staking): pool, positions, the accumulator, and the           *)
(* initialize / stake / unstake / claim_rewards instructions.              *)
(*                                                                         *)
(* Integer widths.  TLC integers are 32-bit, so the program's widths are   *)
(* reduced: u64 is U64Bits bits wide, u128 twice that, i64 one bit less    *)
(* than u64.  Token amounts are counted in units of 5 * 10^11 smallest     *)
(* units, which keeps the tier thresholds in the ratio 1 : 10 : 100 of the *)
(* source, and the fixed-point scale PRECISION is reduced with them.       *)
(* Basis-point quantities (10000 .. 20000) keep their source values.       *)
(***************************************************************************)
EXTENDS Integers, FiniteSets, Sequences, TLC

\* ------------------------------------------------------------------ bounds
U64Bits == 8
MaxTime == 3
MaxOps == 3
RewardSupply == 60
MaxDuration == 6

U64Mod == 2 ^ U64Bits
U64Max == U64Mod - 1
U128Mod == U64Mod * U64Mod
U128Max == U128Mod - 1
I64Max == (U64Mod \div 2) - 1

StartTime == 1

Owners == {"a", "b"}
StakeAmounts == {0, 2, 200}
UnstakeAmounts == {0, 1, 2, 200}
Durations == {0, 1, 2, 3}
RateSet == {1, 250}
MinSet == {-1, 1, 3}
MaxSet == {2}
TickSet == {1, 2}
FundSet == {30}
WalletInit == [o \in Owners |-> IF o = "a" THEN 202 ELSE 2]

\* --------------------------------------------------------------- constants
\* The default lock durations, in days: calculate_weight_multiplier depends
\* on its arguments only through (duration - min) * 10000 / (max - min),
\* which is the same in days and in seconds for whole numbers of days.
MIN_LOCK_DURATION == 7
MAX_LOCK_DURATION == 365

PRECISION == 4
BPS_DENOMINATOR == 10000
MIN_WEIGHT_MULTIPLIER == 10000
MAX_WEIGHT_MULTIPLIER == 20000
HOLDER_THRESHOLD == 2
PREMIUM_THRESHOLD == 20
VIP_THRESHOLD == 200

Min2(a, b) == IF a <= b THEN a ELSE b
Max2(a, b) == IF a >= b THEN a ELSE b

\* ------------------------------------------------------------------- state
VARIABLES
    initialized,   \* the stake_pool account exists
    stake_pool,    \* StakePool
    user_stake,    \* owner -> UserStake (exists = the account was created)
    stake_vault,   \* balance of the pool's stake vault
    reward_vault,  \* balance of the pool's reward vault
    user_token,    \* owner -> balance of user_token_account
    user_reward,   \* owner -> balance of user_reward_account
    clock,         \* Clock::get()?.unix_timestamp
    ops,           \* number of committed stake / unstake / claim operations
    last,          \* the last instruction: its inputs and its result
    round_trip,    \* owner -> the stake a following unstake would undo
    claimed_now,   \* owners whose claim committed with nothing accrued since
    shortfall      \* owner in claimed_now -> what the vault could not pay of that claim

vars == <<initialized, stake_pool, user_stake, stake_vault, reward_vault,
          user_token, user_reward, clock, ops, last, round_trip, claimed_now,
          shortfall>>

DefaultPool ==
    [total_staked |-> 0, total_weighted_stake |-> 0, reward_rate |-> 0,
     accumulated_reward_per_share |-> 0, last_reward_time |-> 0,
     min_lock_duration |-> 0, max_lock_duration |-> 0, paused |-> FALSE]

DefaultUserStake ==
    [exists |-> FALSE, staked_amount |-> 0, weighted_stake |-> 0,
     lock_end_time |-> 0, lock_duration |-> 0, reward_debt |-> 0,
     total_claimed |-> 0, stake_start_time |-> 0]

\* ---------------------------------------------------------- pure functions
\* Variant of calculate_tier whose thresholds belong to the lower tier.
calculate_tier_exclusive(staked_amount) ==
    IF staked_amount > VIP_THRESHOLD THEN "Vip"
    ELSE IF staked_amount > PREMIUM_THRESHOLD THEN "Premium"
    ELSE IF staked_amount > HOLDER_THRESHOLD THEN "Holder"
    ELSE "None"

calculate_tier(staked_amount) ==
    IF staked_amount >= VIP_THRESHOLD THEN "Vip"
    ELSE IF staked_amount >= PREMIUM_THRESHOLD THEN "Premium"
    ELSE IF staked_amount >= HOLDER_THRESHOLD THEN "Holder"
    ELSE "None"

platform_fee_bps(tier) ==
    CASE tier = "None" -> 500
      [] tier = "Holder" -> 400
      [] tier = "Premium" -> 200
      [] tier = "Vip" -> 0

reward_multiplier_bps(tier) ==
    CASE tier = "None" -> 10000
      [] tier = "Holder" -> 11000
      [] tier = "Premium" -> 12500
      [] tier = "Vip" -> 15000

\* Variant of calculate_weight_multiplier that does not clamp the duration.
calculate_weight_multiplier_unclamped(lock_duration, min_duration, max_duration) ==
    LET range == max_duration - min_duration
    IN  IF range = 0 THEN MIN_WEIGHT_MULTIPLIER
        ELSE LET progress == lock_duration - min_duration
                 progress_bps == (progress * 10000) \div range
                 multiplier_range == MAX_WEIGHT_MULTIPLIER - MIN_WEIGHT_MULTIPLIER
             IN  MIN_WEIGHT_MULTIPLIER + ((multiplier_range * progress_bps) \div 10000)

\* progress_bps is at most 10000, so its `as u64` cast never truncates.
calculate_weight_multiplier(lock_duration, min_duration, max_duration) ==
    LET duration == Min2(Max2(lock_duration, min_duration), max_duration)
        range == max_duration - min_duration
    IN  IF range = 0 THEN MIN_WEIGHT_MULTIPLIER
        ELSE LET progress == duration - min_duration
                 progress_bps == (progress * 10000) \div range
                 multiplier_range == MAX_WEIGHT_MULTIPLIER - MIN_WEIGHT_MULTIPLIER
             IN  MIN_WEIGHT_MULTIPLIER + ((multiplier_range * progress_bps) \div 10000)

\* Variant of update_rewards that stores the increase instead of adding it.
update_rewards_overwrite(sp, current_time) ==
    IF sp.total_weighted_stake = 0
    THEN [err |-> "Ok", pool |-> [sp EXCEPT !.last_reward_time = current_time]]
    ELSE LET time_elapsed == current_time - sp.last_reward_time IN
         IF time_elapsed <= 0 THEN [err |-> "Ok", pool |-> sp]
         ELSE IF time_elapsed * sp.reward_rate * PRECISION > U128Max
         THEN [err |-> "MathOverflow", pool |-> sp]
         ELSE [err |-> "Ok",
               pool |-> [sp EXCEPT
                   !.accumulated_reward_per_share =
                       (time_elapsed * sp.reward_rate * PRECISION)
                           \div sp.total_weighted_stake,
                   !.last_reward_time = current_time]]

\* Variant of update_rewards that does nothing: the handlers then work with
\* the accumulator as the previous operation left it.
update_rewards_skip(sp, current_time) == [err |-> "Ok", pool |-> sp]

\* Variant of update_rewards that leaves last_reward_time alone while the
\* pool has no weighted stake, so that the idle time is counted later.
update_rewards_bank_idle(sp, current_time) ==
    IF sp.total_weighted_stake = 0
    THEN [err |-> "Ok", pool |-> sp]
    ELSE LET time_elapsed == current_time - sp.last_reward_time IN
         IF time_elapsed <= 0 THEN [err |-> "Ok", pool |-> sp]
         ELSE LET reward_per_share_increase ==
                      (time_elapsed * sp.reward_rate * PRECISION)
                          \div sp.total_weighted_stake
              IN  IF sp.accumulated_reward_per_share + reward_per_share_increase > U128Max
                  THEN [err |-> "MathOverflow", pool |-> sp]
                  ELSE [err |-> "Ok",
                        pool |-> [sp EXCEPT
                            !.accumulated_reward_per_share = @ + reward_per_share_increase,
                            !.last_reward_time = current_time]]

\* Variant of update_rewards that stamps last_reward_time also when no time
\* has elapsed.
update_rewards_restamp(sp, current_time) ==
    IF sp.total_weighted_stake = 0
    THEN [err |-> "Ok", pool |-> [sp EXCEPT !.last_reward_time = current_time]]
    ELSE LET time_elapsed == current_time - sp.last_reward_time IN
         IF time_elapsed <= 0
         THEN [err |-> "Ok", pool |-> [sp EXCEPT !.last_reward_time = current_time]]
         ELSE LET reward_per_share_increase ==
                      (time_elapsed * sp.reward_rate * PRECISION)
                          \div sp.total_weighted_stake
              IN  IF sp.accumulated_reward_per_share + reward_per_share_increase > U128Max
                  THEN [err |-> "MathOverflow", pool |-> sp]
                  ELSE [err |-> "Ok",
                        pool |-> [sp EXCEPT
                            !.accumulated_reward_per_share = @ + reward_per_share_increase,
                            !.last_reward_time = current_time]]

\* update_rewards mutates the pool in place; on an error the pool is as the
\* function left it when `?` returned.
update_rewards(sp, current_time) ==
    IF sp.total_weighted_stake = 0
    THEN [err |-> "Ok", pool |-> [sp EXCEPT !.last_reward_time = current_time]]
    ELSE LET time_elapsed == current_time - sp.last_reward_time IN
         IF time_elapsed > I64Max \/ time_elapsed < -(I64Max + 1)
         THEN [err |-> "MathOverflow", pool |-> sp]
         ELSE IF time_elapsed <= 0 THEN [err |-> "Ok", pool |-> sp]
         ELSE LET new_rewards == time_elapsed * sp.reward_rate IN
              IF new_rewards > U128Max \/ new_rewards * PRECISION > U128Max
              THEN [err |-> "MathOverflow", pool |-> sp]
              ELSE LET reward_per_share_increase ==
                           (new_rewards * PRECISION) \div sp.total_weighted_stake
                   IN  IF sp.accumulated_reward_per_share + reward_per_share_increase > U128Max
                       THEN [err |-> "MathOverflow", pool |-> sp]
                       ELSE [err |-> "Ok",
                             pool |-> [sp EXCEPT
                                 !.accumulated_reward_per_share = @ + reward_per_share_increase,
                                 !.last_reward_time = current_time]]

calculate_pending_rewards(us, accumulated_reward_per_share) ==
    IF us.weighted_stake = 0 THEN [err |-> "Ok", val |-> 0]
    ELSE IF us.weighted_stake * accumulated_reward_per_share > U128Max
    THEN [err |-> "MathOverflow", val |-> 0]
    ELSE LET accumulated == (us.weighted_stake * accumulated_reward_per_share) \div PRECISION
             pending == IF accumulated >= us.reward_debt
                        THEN accumulated - us.reward_debt ELSE 0
         IN  [err |-> "Ok", val |-> Min2(pending, U64Max)]

\* ---------------------------------------------------------------- handlers
\* A handler works on the in-memory copies of the accounts.  Its result is
\* the error it returned and the copies as they were at that moment, so a
\* late error leaves the copies partly updated.
\* Variant of Result in which the handler requests no transfer.
Result_no_transfer(err, sp, us, amount) ==
    [err |-> err, pool |-> sp, us |-> us, xfer |-> 0]

Result(err, sp, us, amount) == [err |-> err, pool |-> sp, us |-> us, xfer |-> amount]

\* token::transfer of the SPL token program: rejected when the source
\* account holds less than the amount.
transfer(from_balance, amount) == IF amount > from_balance THEN "InsufficientFunds" ELSE "Ok"

\* (amount as u128) * (weight_multiplier as u128) cannot exceed u128 for two
\* 64-bit operands, so that checked_mul never fails; the final `as u64`
\* keeps the low 64 bits.
weighted_amount_of(amount, weight_multiplier) ==
    ((amount * weight_multiplier) \div 10000) % U64Mod

\* Variant of lock_after_stake that always restarts the lock at now + duration.
lock_after_stake_overwrite(us0, now, lock_duration) ==
    IF now + lock_duration > I64Max
    THEN [err |-> "MathOverflow", us |-> [us0 EXCEPT !.exists = TRUE]]
    ELSE [err |-> "Ok",
          us |-> [us0 EXCEPT !.exists = TRUE,
                             !.stake_start_time =
                                 IF us0.staked_amount = 0 THEN now ELSE @,
                             !.lock_end_time = now + lock_duration,
                             !.lock_duration = lock_duration]]

\* "Initialize user stake if first time", else extend the lock; the account is
\* created by init_if_needed before the handler runs.
lock_after_stake(us0, now, lock_duration) ==
    LET is_first_stake == us0.staked_amount = 0
        new_lock_end == now + lock_duration
    IN  IF is_first_stake
        THEN IF new_lock_end > I64Max
             THEN [err |-> "MathOverflow",
                   us |-> [us0 EXCEPT !.exists = TRUE, !.stake_start_time = now,
                                      !.lock_duration = lock_duration]]
             ELSE [err |-> "Ok",
                   us |-> [us0 EXCEPT !.exists = TRUE, !.stake_start_time = now,
                                      !.lock_duration = lock_duration,
                                      !.lock_end_time = new_lock_end]]
        ELSE IF new_lock_end > I64Max
             THEN [err |-> "MathOverflow", us |-> [us0 EXCEPT !.exists = TRUE]]
             ELSE IF new_lock_end > us0.lock_end_time
                  THEN [err |-> "Ok",
                        us |-> [us0 EXCEPT !.exists = TRUE,
                                           !.lock_end_time = new_lock_end,
                                           !.lock_duration = lock_duration]]
                  ELSE [err |-> "Ok", us |-> [us0 EXCEPT !.exists = TRUE]]

\* Variant of add_pool_totals that adds the raw amount to both totals.
add_pool_totals_raw(sp, amount, weighted_amount) ==
    IF sp.total_staked + amount > U64Max \/ sp.total_weighted_stake + amount > U64Max
    THEN [err |-> "MathOverflow", pool |-> sp]
    ELSE [err |-> "Ok",
          pool |-> [sp EXCEPT !.total_staked = @ + amount,
                              !.total_weighted_stake = @ + amount]]

\* Variant of add_pool_totals that leaves total_staked as it was.
add_pool_totals_weighted_only(sp, amount, weighted_amount) ==
    IF sp.total_weighted_stake + weighted_amount > U64Max
    THEN [err |-> "MathOverflow", pool |-> sp]
    ELSE [err |-> "Ok",
          pool |-> [sp EXCEPT !.total_weighted_stake = @ + weighted_amount]]

\* "Update pool totals" of stake.
add_pool_totals(sp, amount, weighted_amount) ==
    IF sp.total_staked + amount > U64Max THEN [err |-> "MathOverflow", pool |-> sp]
    ELSE LET sp2 == [sp EXCEPT !.total_staked = @ + amount] IN
         IF sp2.total_weighted_stake + weighted_amount > U64Max
         THEN [err |-> "MathOverflow", pool |-> sp2]
         ELSE [err |-> "Ok",
               pool |-> [sp2 EXCEPT !.total_weighted_stake = @ + weighted_amount]]

\* Variant of stake_checks that does not look at the paused flag.
stake_checks_unpaused(sp, amount, lock_duration) ==
    IF ~(amount > 0) THEN "InvalidAmount"
    ELSE IF ~(lock_duration >= sp.min_lock_duration) THEN "DurationTooShort"
    ELSE IF ~(lock_duration <= sp.max_lock_duration) THEN "DurationTooLong"
    ELSE "Ok"

\* Variant of stake_checks that accepts any amount.
stake_checks_any_amount(sp, amount, lock_duration) ==
    IF sp.paused THEN "PoolPaused"
    ELSE IF ~(lock_duration >= sp.min_lock_duration) THEN "DurationTooShort"
    ELSE IF ~(lock_duration <= sp.max_lock_duration) THEN "DurationTooLong"
    ELSE "Ok"

\* The four require! lines that open the stake handler, in their order.
stake_checks(sp, amount, lock_duration) ==
    IF sp.paused THEN "PoolPaused"
    ELSE IF ~(amount > 0) THEN "InvalidAmount"
    ELSE IF ~(lock_duration >= sp.min_lock_duration) THEN "DurationTooShort"
    ELSE IF ~(lock_duration <= sp.max_lock_duration) THEN "DurationTooLong"
    ELSE "Ok"

stake_handler(sp0, us0, now, amount, lock_duration, from_balance) ==
    IF stake_checks(sp0, amount, lock_duration) # "Ok"
    THEN Result(stake_checks(sp0, amount, lock_duration), sp0, us0, 0)
    ELSE
    LET upd == update_rewards(sp0, now)
        sp1 == upd.pool
    IN
    IF upd.err # "Ok" THEN Result(upd.err, sp1, us0, 0)
    ELSE
    LET weight_multiplier == calculate_weight_multiplier(
                                 lock_duration, sp1.min_lock_duration, sp1.max_lock_duration)
        weighted_amount == weighted_amount_of(amount, weight_multiplier)
        lck == lock_after_stake(us0, now, lock_duration)
        us1 == lck.us
    IN
    IF lck.err # "Ok" THEN Result(lck.err, sp1, us1, 0)
    ELSE IF us1.staked_amount + amount > U64Max THEN Result("MathOverflow", sp1, us1, 0)
    ELSE
    LET us2 == [us1 EXCEPT !.staked_amount = @ + amount] IN
    IF us2.weighted_stake + weighted_amount > U64Max THEN Result("MathOverflow", sp1, us2, 0)
    ELSE
    LET us3 == [us2 EXCEPT !.weighted_stake = @ + weighted_amount] IN
    IF weighted_amount * sp1.accumulated_reward_per_share > U128Max
    THEN Result("MathOverflow", sp1, us3, 0)
    ELSE
    LET additional_debt == (weighted_amount * sp1.accumulated_reward_per_share) \div PRECISION IN
    IF us3.reward_debt + additional_debt > U128Max THEN Result("MathOverflow", sp1, us3, 0)
    ELSE
    LET us4 == [us3 EXCEPT !.reward_debt = @ + additional_debt]
        tot == add_pool_totals(sp1, amount, weighted_amount)
        sp3 == tot.pool
    IN
    IF tot.err # "Ok" THEN Result(tot.err, sp3, us4, 0)
    ELSE IF transfer(from_balance, amount) # "Ok"
    THEN Result(transfer(from_balance, amount), sp3, us4, 0)
    ELSE Result("Ok", sp3, us4, amount)

\* Variant of lock_expired that lets the lock end one second early.
lock_expired_early(now, us) == now + 1 >= us.lock_end_time

\* require!(clock.unix_timestamp >= user_stake.lock_end_time, StillLocked)
lock_expired(now, us) == now >= us.lock_end_time

\* Variant of weighted_to_remove_of that removes the whole weighted stake.
weighted_to_remove_all(amount, us) == us.weighted_stake

\* Variant of weighted_to_remove_of that removes the raw amount.
weighted_to_remove_raw(amount, us) == amount

\* weighted_to_remove; amount and weighted_stake are 64-bit, so the u128
\* product cannot overflow, and staked_amount >= amount > 0 is the divisor.
weighted_to_remove_of(amount, us) ==
    ((amount * us.weighted_stake) \div us.staked_amount) % U64Mod

\* Variant of debt_to_remove_of that removes the whole debt.
debt_to_remove_all(amount, us) == us.reward_debt

\* debt_to_remove; the caller has checked that the product fits u128.
debt_to_remove_of(amount, us) == (amount * us.reward_debt) \div us.staked_amount

\* Variant of unstake_checks that does not compare amount with the stake.
unstake_checks_uncovered(us, now, amount) ==
    IF ~(amount > 0) THEN "InvalidAmount"
    ELSE IF ~lock_expired(now, us) THEN "StillLocked"
    ELSE "Ok"

\* The three require! lines that open the unstake handler, in their order.
unstake_checks(us, now, amount) ==
    IF ~(amount > 0) THEN "InvalidAmount"
    ELSE IF ~(us.staked_amount >= amount) THEN "InsufficientStake"
    ELSE IF ~lock_expired(now, us) THEN "StillLocked"
    ELSE "Ok"

unstake_handler(sp0, us0, now, amount, from_balance) ==
    IF ~us0.exists THEN Result("AccountNotInitialized", sp0, us0, 0)
    ELSE IF unstake_checks(us0, now, amount) # "Ok"
    THEN Result(unstake_checks(us0, now, amount), sp0, us0, 0)
    ELSE
    LET upd == update_rewards(sp0, now)
        sp1 == upd.pool
    IN
    IF upd.err # "Ok" THEN Result(upd.err, sp1, us0, 0)
    ELSE
    LET weighted_to_remove == weighted_to_remove_of(amount, us0) IN
    IF amount * us0.reward_debt > U128Max THEN Result("MathOverflow", sp1, us0, 0)
    ELSE
    LET debt_to_remove == debt_to_remove_of(amount, us0)
        us1 == [us0 EXCEPT !.staked_amount = @ - amount]
    IN
    IF us1.weighted_stake < weighted_to_remove THEN Result("MathOverflow", sp1, us1, 0)
    ELSE
    LET us2 == [us1 EXCEPT !.weighted_stake = @ - weighted_to_remove] IN
    IF us2.reward_debt < debt_to_remove THEN Result("MathOverflow", sp1, us2, 0)
    ELSE
    LET us3 == [us2 EXCEPT !.reward_debt = @ - debt_to_remove] IN
    IF sp1.total_staked < amount THEN Result("MathOverflow", sp1, us3, 0)
    ELSE
    LET sp2 == [sp1 EXCEPT !.total_staked = @ - amount] IN
    IF sp2.total_weighted_stake < weighted_to_remove THEN Result("MathOverflow", sp2, us3, 0)
    ELSE
    LET sp3 == [sp2 EXCEPT !.total_weighted_stake = @ - weighted_to_remove] IN
    IF transfer(from_balance, amount) # "Ok"
    THEN Result(transfer(from_balance, amount), sp3, us3, 0)
    ELSE Result("Ok", sp3, us3, amount)

\* (pending as u128) * (tier_multiplier as u128) cannot exceed u128 for two
\* 64-bit operands; the final `as u64` keeps the low 64 bits.
reward_amount_of(pending, tier_multiplier) ==
    ((pending * tier_multiplier) \div 10000) % U64Mod

\* Variant of debt_after_claim that divides before it multiplies.
debt_after_claim_divide_first(us, accumulated_reward_per_share) ==
    us.weighted_stake * (accumulated_reward_per_share \div PRECISION)

\* Variant of debt_after_claim that leaves the debt where it was.
debt_after_claim_stale(us, accumulated_reward_per_share) == us.reward_debt

\* "Update reward debt to current accumulation"; the caller has checked
\* that the product fits u128.
debt_after_claim(us, accumulated_reward_per_share) ==
    (us.weighted_stake * accumulated_reward_per_share) \div PRECISION

\* reward_amount of the claim handler: the pending reward with the tier
\* multiplier applied, before the cap by the vault balance.
claim_reward_amount(us, accumulated_reward_per_share) ==
    reward_amount_of(
        calculate_pending_rewards(us, accumulated_reward_per_share).val,
        reward_multiplier_bps(calculate_tier(us.staked_amount)))

\* Variant of total_claimed_after that stores the last payment.
total_claimed_last(us, actual_reward) == actual_reward

\* "Update total claimed"; the caller has checked that the sum fits u64.
total_claimed_after(us, actual_reward) == us.total_claimed + actual_reward

claim_handler(sp0, us0, now, vault_balance) ==
    IF ~us0.exists THEN Result("AccountNotInitialized", sp0, us0, 0)
    ELSE IF ~(us0.staked_amount > 0) THEN Result("InsufficientStake", sp0, us0, 0)
    ELSE
    LET upd == update_rewards(sp0, now)
        sp1 == upd.pool
    IN
    IF upd.err # "Ok" THEN Result(upd.err, sp1, us0, 0)
    ELSE
    LET pend == calculate_pending_rewards(us0, sp1.accumulated_reward_per_share) IN
    IF pend.err # "Ok" THEN Result(pend.err, sp1, us0, 0)
    ELSE IF ~(pend.val > 0) THEN Result("NoPendingRewards", sp1, us0, 0)
    ELSE
    LET tier == calculate_tier(us0.staked_amount)
        tier_multiplier == reward_multiplier_bps(tier)
        reward_amount == reward_amount_of(pend.val, tier_multiplier)
        actual_reward == Min2(reward_amount, vault_balance)
    IN
    IF ~(actual_reward > 0) THEN Result("NoPendingRewards", sp1, us0, 0)
    ELSE IF us0.weighted_stake * sp1.accumulated_reward_per_share > U128Max
    THEN Result("MathOverflow", sp1, us0, 0)
    ELSE
    LET us1 == [us0 EXCEPT !.reward_debt =
                   debt_after_claim(us0, sp1.accumulated_reward_per_share)]
    IN
    IF us1.total_claimed + actual_reward > U64Max THEN Result("MathOverflow", sp1, us1, 0)
    ELSE
    LET us2 == [us1 EXCEPT !.total_claimed = total_claimed_after(us1, actual_reward)] IN
    IF transfer(vault_balance, actual_reward) # "Ok"
    THEN Result(transfer(vault_balance, actual_reward), sp1, us2, 0)
    ELSE Result("Ok", sp1, us2, actual_reward)

\* Variant of initialize_handler that accepts a negative minimum.
initialize_handler_any_min(sp0, now, reward_rate, min_lock_duration, max_lock_duration) ==
    IF ~(max_lock_duration >= min_lock_duration) THEN [err |-> "DurationTooLong", pool |-> sp0]
    ELSE [err |-> "Ok",
          pool |-> [sp0 EXCEPT !.total_staked = 0,
                               !.total_weighted_stake = 0,
                               !.reward_rate = reward_rate,
                               !.accumulated_reward_per_share = 0,
                               !.last_reward_time = now,
                               !.min_lock_duration = min_lock_duration,
                               !.max_lock_duration = max_lock_duration,
                               !.paused = FALSE]]

initialize_handler(sp0, now, reward_rate, min_lock_duration, max_lock_duration) ==
    IF ~(min_lock_duration >= 0) THEN [err |-> "DurationTooShort", pool |-> sp0]
    ELSE IF ~(max_lock_duration >= min_lock_duration) THEN [err |-> "DurationTooLong", pool |-> sp0]
    ELSE [err |-> "Ok",
          pool |-> [sp0 EXCEPT !.total_staked = 0,
                               !.total_weighted_stake = 0,
                               !.reward_rate = reward_rate,
                               !.accumulated_reward_per_share = 0,
                               !.last_reward_time = now,
                               !.min_lock_duration = min_lock_duration,
                               !.max_lock_duration = max_lock_duration,
                               !.paused = FALSE]]

\* ----------------------------------------------------------------- actions
\* Variant of Persist that writes the copies back whatever the result.
PersistAlways(err, new, old) == new

\* The program entry points write the account copies back only when the
\* handler returned Ok; an error aborts the transaction and every account
\* keeps its value from before the instruction.
Persist(err, new, old) == IF err = "Ok" THEN new ELSE old

NoRoundTrip == [active |-> FALSE, amount |-> 0, staked |-> 0, weighted |-> 0]

NoShortfall == [o \in Owners |-> 0]

Record(kind, owner, amount, dur, err) ==
    [kind |-> kind, owner |-> owner, amount |-> amount, dur |-> dur,
     err |-> err, rt |-> FALSE, fresh |-> FALSE, idle |-> 0]

\* A failed instruction changes no account, so every continuation of a run
\* after it is a continuation of the run before it: exploration stops there.
Live == last.err = "Ok"

Init ==
    /\ initialized = FALSE
    /\ stake_pool = DefaultPool
    /\ user_stake = [o \in Owners |-> DefaultUserStake]
    /\ stake_vault = 0
    /\ reward_vault = 0
    /\ user_token = WalletInit
    /\ user_reward = [o \in Owners |-> 0]
    /\ clock = StartTime
    /\ ops = 0
    /\ last = Record("none", "-", 0, 0, "Ok")
    /\ round_trip = [o \in Owners |-> NoRoundTrip]
    /\ claimed_now = {}
    /\ shortfall = NoShortfall

Initialize(reward_rate, min_lock_duration, max_lock_duration) ==
    /\ Live
    /\ ~initialized
    /\ LET r == initialize_handler(stake_pool, clock, reward_rate,
                                   min_lock_duration, max_lock_duration)
       IN  /\ initialized' = (r.err = "Ok")
           /\ stake_pool' = Persist(r.err, r.pool, stake_pool)
           /\ last' = Record("initialize", "-", 0, 0, r.err)
    /\ UNCHANGED <<user_stake, stake_vault, reward_vault, user_token, user_reward,
                   clock, ops, round_trip, claimed_now,
                   shortfall>>

Stake(o, amount, lock_duration) ==
    /\ Live
    /\ initialized
    /\ ops < MaxOps
    /\ LET r == stake_handler(stake_pool, user_stake[o], clock, amount,
                              lock_duration, user_token[o])
           ok == r.err = "Ok"
       IN  /\ stake_pool' = Persist(r.err, r.pool, stake_pool)
           /\ user_stake' = [user_stake EXCEPT ![o] = Persist(r.err, r.us, @)]
           /\ user_token' = [user_token EXCEPT ![o] = Persist(r.err, @ - r.xfer, @)]
           /\ stake_vault' = Persist(r.err, stake_vault + r.xfer, stake_vault)
           /\ ops' = IF ok THEN ops + 1 ELSE ops
           /\ last' = [Record("stake", o, amount, lock_duration, r.err) EXCEPT
                          !.idle = IF stake_pool.total_weighted_stake = 0
                                   THEN clock - stake_pool.last_reward_time ELSE 0]
           /\ round_trip' = IF ok
                            THEN [round_trip EXCEPT ![o] =
                                     [active |-> TRUE, amount |-> amount,
                                      staked |-> user_stake[o].staked_amount,
                                      weighted |-> user_stake[o].weighted_stake]]
                            ELSE round_trip
           /\ claimed_now' = IF ok THEN {} ELSE claimed_now
           /\ shortfall' = IF ok THEN NoShortfall ELSE shortfall
    /\ UNCHANGED <<initialized, reward_vault, user_reward, clock>>

Unstake(o, amount) ==
    /\ Live
    /\ initialized
    /\ ops < MaxOps
    /\ LET r == unstake_handler(stake_pool, user_stake[o], clock, amount, stake_vault)
           ok == r.err = "Ok"
       IN  /\ stake_pool' = Persist(r.err, r.pool, stake_pool)
           /\ user_stake' = [user_stake EXCEPT ![o] = Persist(r.err, r.us, @)]
           /\ user_token' = [user_token EXCEPT ![o] = Persist(r.err, @ + r.xfer, @)]
           /\ stake_vault' = Persist(r.err, stake_vault - r.xfer, stake_vault)
           /\ ops' = IF ok THEN ops + 1 ELSE ops
           /\ last' = [Record("unstake", o, amount, 0, r.err) EXCEPT
                          !.rt = round_trip[o].active /\ round_trip[o].amount = amount]
           /\ round_trip' = IF ok THEN [round_trip EXCEPT ![o] = NoRoundTrip]
                            ELSE round_trip
           /\ claimed_now' = IF ok THEN {} ELSE claimed_now
           /\ shortfall' = IF ok THEN NoShortfall ELSE shortfall
    /\ UNCHANGED <<initialized, reward_vault, user_reward, clock>>

Claim(o) ==
    /\ Live
    /\ initialized
    /\ ops < MaxOps
    /\ LET r == claim_handler(stake_pool, user_stake[o], clock, reward_vault)
           ok == r.err = "Ok"
       IN  /\ stake_pool' = Persist(r.err, r.pool, stake_pool)
           /\ user_stake' = [user_stake EXCEPT ![o] = Persist(r.err, r.us, @)]
           /\ user_reward' = [user_reward EXCEPT ![o] = Persist(r.err, @ + r.xfer, @)]
           /\ reward_vault' = Persist(r.err, reward_vault - r.xfer, reward_vault)
           /\ ops' = IF ok THEN ops + 1 ELSE ops
           /\ last' = [Record("claim", o, 0, 0, r.err) EXCEPT !.fresh = (o \in claimed_now)]
           /\ round_trip' = IF ok THEN [round_trip EXCEPT ![o] = NoRoundTrip]
                            ELSE round_trip
           /\ claimed_now' = IF ok THEN claimed_now \cup {o} ELSE claimed_now
           /\ shortfall' = IF ok
                           THEN [shortfall EXCEPT ![o] =
                                    claim_reward_amount(
                                        user_stake[o],
                                        r.pool.accumulated_reward_per_share) - r.xfer]
                           ELSE shortfall
    /\ UNCHANGED <<initialized, stake_vault, user_token, clock>>

\* The clock sysvar advances between instructions.
Tick(dt) ==
    /\ Live
    /\ clock + dt <= MaxTime
    /\ clock' = clock + dt
    /\ last' = Record("tick", "-", dt, 0, "Ok")
    /\ claimed_now' = {}
    /\ shortfall' = NoShortfall
    /\ UNCHANGED <<initialized, stake_pool, user_stake, stake_vault, reward_vault,
                   user_token, user_reward, ops, round_trip>>

\* The reward vault is pre-funded by a plain token deposit; the reward mint's
\* supply bounds what can ever be deposited.
FundRewardVault(amount) ==
    /\ Live
    /\ initialized
    /\ reward_vault + user_reward["a"] + user_reward["b"] + amount <= RewardSupply
    /\ reward_vault' = reward_vault + amount
    /\ last' = Record("fund", "-", amount, 0, "Ok")
    /\ UNCHANGED <<initialized, stake_pool, user_stake, stake_vault, user_token,
                   user_reward, clock, ops, round_trip, claimed_now,
                   shortfall>>

Next ==
    \/ \E rate \in RateSet, mn \in MinSet, mx \in MaxSet : Initialize(rate, mn, mx)
    \/ \E o \in Owners, amount \in StakeAmounts, d \in Durations : Stake(o, amount, d)
    \/ \E o \in Owners, amount \in UnstakeAmounts : Unstake(o, amount)
    \/ \E o \in Owners : Claim(o)
    \/ \E dt \in TickSet : Tick(dt)
    \/ \E amount \in FundSet : FundRewardVault(amount)

Spec == Init /\ [][Next]_vars

\* The pool's authority pauses or resumes the pool.
SetPaused(flag) ==
    /\ Live
    /\ initialized
    /\ stake_pool.paused # flag
    /\ stake_pool' = [stake_pool EXCEPT !.paused = flag]
    /\ last' = Record("set_paused", "-", 0, 0, "Ok")
    /\ UNCHANGED <<initialized, user_stake, stake_vault, reward_vault, user_token,
                   user_reward, clock, ops, round_trip, claimed_now,
                   shortfall>>

NextPause ==
    \/ Next
    \/ \E flag \in BOOLEAN : SetPaused(flag)

SpecPause == Init /\ [][NextPause]_vars

\* ------------------------------------------------------------ properties
RECURSIVE SumOver(_, _)
SumOver(f, S) ==
    IF S = {} THEN 0
    ELSE LET o == CHOOSE x \in S : TRUE IN f[o] + SumOver(f, S \ {o})

Accounts == <<initialized, stake_pool, user_stake, stake_vault, reward_vault,
              user_token, user_reward>>

Accrued(us, acc) == (us.weighted_stake * acc) \div PRECISION

\* C1: between operations, total_staked is the sum of staked_amount and
\* total_weighted_stake the sum of weighted_stake over the pool's positions.
C1_TotalsMatchPositions ==
    /\ stake_pool.total_staked =
           SumOver([o \in Owners |-> user_stake[o].staked_amount], Owners)
    /\ stake_pool.total_weighted_stake =
           SumOver([o \in Owners |-> user_stake[o].weighted_stake], Owners)

C1_Witness ==
    /\ last.kind = "unstake" /\ last.err = "Ok"
    /\ \A o \in Owners : user_stake[o].staked_amount > 0
    /\ \E o \in Owners : user_stake[o].weighted_stake > user_stake[o].staked_amount

\* C2: for every position the accrued reward
\* floor(weighted_stake * accumulated_reward_per_share / PRECISION) is at
\* least reward_debt, so the un-clamped pending reward is never negative.
C2_PendingNeverNegative ==
    \A o \in Owners :
        Accrued(user_stake[o], stake_pool.accumulated_reward_per_share)
            >= user_stake[o].reward_debt

\* C3: accumulated_reward_per_share never decreases in any step.
C3_AccumulatorMonotone ==
    [][stake_pool'.accumulated_reward_per_share
           >= stake_pool.accumulated_reward_per_share]_vars

C3_Witness ==
    /\ last.kind \in {"stake", "unstake", "claim"}
    /\ stake_pool.accumulated_reward_per_share > 0
    /\ stake_pool.last_reward_time = clock
    /\ stake_pool.total_weighted_stake > 0

\* The step is an unstake whose amount is positive and covered by the position.
CoveredUnstake ==
    /\ last'.kind = "unstake"
    /\ user_stake[last'.owner].exists
    /\ last'.amount > 0
    /\ last'.amount <= user_stake[last'.owner].staked_amount

\* C4 as stated: a covered unstake before lock_end_time fails with
\* StillLocked and changes nothing; at or after lock_end_time it succeeds.
C4_UnstakeSucceedsAfterLock ==
    [][CoveredUnstake =>
          IF clock < user_stake[last'.owner].lock_end_time
          THEN last'.err = "StillLocked" /\ UNCHANGED Accounts
          ELSE last'.err = "Ok"]_vars

\* C4 amended: a covered unstake before lock_end_time fails with StillLocked
\* and changes nothing; at or after lock_end_time it never fails with
\* StillLocked: it succeeds unless the arithmetic overflows or the transfer
\* is rejected.  No token leaves the stake vault for a position before that
\* position's lock_end_time.
C4_LockGate ==
    [][/\ CoveredUnstake =>
              IF clock < user_stake[last'.owner].lock_end_time
              THEN last'.err = "StillLocked" /\ UNCHANGED Accounts
              ELSE last'.err \in {"Ok", "MathOverflow", "InsufficientFunds"}
       /\ \A o \in Owners :
              user_token'[o] > user_token[o] => clock >= user_stake[o].lock_end_time
       /\ stake_vault' < stake_vault =>
              \E o \in Owners : /\ user_token'[o] > user_token[o]
                                /\ clock >= user_stake[o].lock_end_time]_vars

C4_Witness ==
    /\ last.kind = "unstake" /\ last.err = "StillLocked"
    /\ last.amount > 0
    /\ last.amount <= user_stake[last.owner].staked_amount
    /\ clock = user_stake[last.owner].lock_end_time - 1

\* C5: a successful stake leaves lock_end_time at least where it was and at
\* least at now + lock_duration; unstake and claim do not change it.
C5_LockNeverShortened ==
    [][/\ (last'.kind = "stake" /\ last'.err = "Ok") =>
              /\ user_stake'[last'.owner].lock_end_time
                     >= user_stake[last'.owner].lock_end_time
              /\ user_stake'[last'.owner].lock_end_time >= clock + last'.dur
       /\ last'.kind \in {"unstake", "claim"} =>
              \A o \in Owners :
                  user_stake'[o].lock_end_time = user_stake[o].lock_end_time]_vars

C5_Witness ==
    /\ last.kind = "stake" /\ last.err = "Ok"
    /\ round_trip[last.owner].staked > 0
    /\ user_stake[last.owner].lock_end_time > clock + last.dur

\* C6: once a position exists, no step changes its stake_start_time.
C6_StartTimeWrittenOnce ==
    [][\A o \in Owners :
          user_stake[o].exists =>
              user_stake'[o].stake_start_time = user_stake[o].stake_start_time]_vars

\* The unstake of this step undoes the stake that was the position's last
\* committed operation.
RoundTripStep ==
    /\ last'.kind = "unstake"
    /\ last'.err = "Ok"
    /\ last'.rt

\* C7 as stated: stake(amount) followed by unstake(amount) on a position
\* returns staked_amount to its pre-stake value and weighted_stake to within
\* 1 of its pre-stake value.
C7_RoundTripWithinOne ==
    [][RoundTripStep =>
          LET o == last'.owner IN
          /\ user_stake'[o].staked_amount = round_trip[o].staked
          /\ user_stake'[o].weighted_stake - round_trip[o].weighted <= 1
          /\ round_trip[o].weighted - user_stake'[o].weighted_stake <= 1]_vars

\* C7 amended: the round trip returns staked_amount exactly to its pre-stake
\* value; weighted_stake returns exactly to its pre-stake value when the
\* position held no stake before the stake, and otherwise is what the
\* proportional removal floor(amount * weighted_stake / staked_amount) of the
\* combined position leaves.
C7_RoundTrip ==
    [][RoundTripStep =>
          LET o == last'.owner IN
          /\ user_stake'[o].staked_amount = round_trip[o].staked
          /\ round_trip[o].staked = 0 =>
                 user_stake'[o].weighted_stake = round_trip[o].weighted
          /\ user_stake'[o].weighted_stake =
                 user_stake[o].weighted_stake
                   - (last'.amount * user_stake[o].weighted_stake)
                         \div user_stake[o].staked_amount]_vars

C7_Witness ==
    /\ last.kind = "unstake" /\ last.err = "Ok" /\ last.rt
    /\ user_stake[last.owner].staked_amount = 0
    /\ user_stake[last.owner].weighted_stake = 0
    /\ user_stake[last.owner].stake_start_time < clock

\* C8: a claim by a position whose previous claim committed, with no time
\* elapsed and no stake or unstake by anyone since, fails with
\* NoPendingRewards and changes nothing.
C8_SecondClaimFails ==
    [][(last'.kind = "claim" /\ last'.owner \in claimed_now) =>
          last'.err = "NoPendingRewards" /\ UNCHANGED Accounts]_vars

C8_Witness ==
    /\ last.kind = "claim" /\ last.fresh /\ last.err = "NoPendingRewards"
    /\ user_stake[last.owner].total_claimed > 0

C10_NoSilentWrap ==
    [][/\ (last'.kind = "stake" /\ last'.err = "Ok") =>
              (last'.amount * calculate_weight_multiplier(
                                  last'.dur, stake_pool.min_lock_duration,
                                  stake_pool.max_lock_duration)) \div 10000 <= U64Max
       /\ (last'.kind = "claim" /\ last'.err = "Ok") =>
              LET us == user_stake[last'.owner]
                  p == calculate_pending_rewards(
                           us, stake_pool'.accumulated_reward_per_share).val
                  m == reward_multiplier_bps(calculate_tier(us.staked_amount))
              IN  (p * m) \div 10000 <= U64Max]_vars

\* An unstake or claim of this step runs on a paused pool exactly as on the
\* same pool with the flag cleared.
SameAsUnpaused(r) ==
    /\ last'.err = r.err
    /\ r.err = "Ok" =>
           /\ stake_pool' = [r.pool EXCEPT !.paused = TRUE]
           /\ user_stake'[last'.owner] = r.us

\* C11: while the pool is paused every stake fails with PoolPaused and
\* changes nothing; an unstake or a claim on a paused pool has the result and
\* the effects it has on the same pool unpaused.
C11_PauseBlocksStakeOnly ==
    [][stake_pool.paused =>
          /\ last'.kind = "stake" =>
                 last'.err = "PoolPaused" /\ UNCHANGED Accounts
          /\ last'.kind = "unstake" =>
                 /\ SameAsUnpaused(unstake_handler(
                        [stake_pool EXCEPT !.paused = FALSE],
                        user_stake[last'.owner], clock, last'.amount, stake_vault))
                 /\ last'.err = "Ok" =>
                        user_token'[last'.owner]
                            = user_token[last'.owner] + last'.amount
          /\ last'.kind = "claim" =>
                 /\ SameAsUnpaused(claim_handler(
                        [stake_pool EXCEPT !.paused = FALSE],
                        user_stake[last'.owner], clock, reward_vault))
                 /\ last'.err = "Ok" =>
                        user_reward'[last'.owner] > user_reward[last'.owner]]_vars

\* a stake that every other check would accept, rejected by the pause.
C11_Witness ==
    /\ stake_pool.paused
    /\ last.kind = "stake" /\ last.err = "PoolPaused"
    /\ stake_checks([stake_pool EXCEPT !.paused = FALSE], last.amount, last.dur) = "Ok"
    /\ user_token[last.owner] >= last.amount
    /\ user_stake[last.owner].staked_amount > 0

\* an unstake and a claim that commit on a paused pool.
C11_UnstakeWhilePaused ==
    stake_pool.paused /\ last.kind = "unstake" /\ last.err = "Ok"

C11_ClaimWhilePaused ==
    stake_pool.paused /\ last.kind = "claim" /\ last.err = "Ok"

\* C12: on an unpaused pool a stake fails with InvalidAmount when amount = 0,
\* else with DurationTooShort when lock_duration < min_lock_duration, else
\* with DurationTooLong when lock_duration > max_lock_duration (the checks run
\* in this order); such a failure changes no account and moves no token; a
\* stake commits only with amount > 0 and min <= lock_duration <= max.
C12_StakeArgumentChecks ==
    [][(last'.kind = "stake" /\ ~stake_pool.paused) =>
          LET amount == last'.amount
              d == last'.dur
              mn == stake_pool.min_lock_duration
              mx == stake_pool.max_lock_duration
          IN  /\ amount = 0 => last'.err = "InvalidAmount"
              /\ (amount > 0 /\ d < mn) => last'.err = "DurationTooShort"
              /\ (amount > 0 /\ d >= mn /\ d > mx) => last'.err = "DurationTooLong"
              /\ last'.err \in {"InvalidAmount", "DurationTooShort", "DurationTooLong"}
                     => UNCHANGED Accounts
              /\ last'.err = "Ok" => (amount > 0 /\ mn <= d /\ d <= mx)]_vars

\* a stake of a positive, funded amount rejected for its duration alone.
C12_Witness ==
    /\ last.kind = "stake" /\ last.err = "DurationTooLong"
    /\ last.amount > 0
    /\ last.amount <= user_token[last.owner]
    /\ last.dur = stake_pool.max_lock_duration + 1
    /\ user_stake[last.owner].staked_amount > 0

\* C13: on an existing position an unstake of more than staked_amount fails
\* with InsufficientStake and an unstake of 0 with InvalidAmount; a claim on
\* a position whose staked_amount is 0 fails with InsufficientStake; none of
\* them changes an account.  A committed unstake takes no more than the
\* position held and pays out exactly what it took.
C13_NoOverdraw ==
    [][/\ (last'.kind = "unstake" /\ user_stake[last'.owner].exists) =>
              /\ last'.amount > user_stake[last'.owner].staked_amount
                     => last'.err = "InsufficientStake" /\ UNCHANGED Accounts
              /\ last'.amount = 0
                     => last'.err = "InvalidAmount" /\ UNCHANGED Accounts
              /\ last'.err = "Ok" =>
                     /\ last'.amount <= user_stake[last'.owner].staked_amount
                     /\ user_stake'[last'.owner].staked_amount
                            = user_stake[last'.owner].staked_amount - last'.amount
                     /\ user_token'[last'.owner]
                            = user_token[last'.owner] + last'.amount
       /\ (/\ last'.kind = "claim"
           /\ user_stake[last'.owner].exists
           /\ user_stake[last'.owner].staked_amount = 0)
              => last'.err = "InsufficientStake" /\ UNCHANGED Accounts
       /\ \A o \in Owners :
              /\ user_stake'[o].staked_amount >= 0
              /\ user_token'[o] - user_token[o] <= user_stake[o].staked_amount]_vars

\* an unlocked position asked for more than it holds.
C13_Witness ==
    /\ last.kind = "unstake" /\ last.err = "InsufficientStake"
    /\ user_stake[last.owner].staked_amount > 0
    /\ last.amount > user_stake[last.owner].staked_amount
    /\ last.amount <= stake_vault
    /\ clock >= user_stake[last.owner].lock_end_time

\* a claim on a position that was emptied by an unstake.
C13_ClaimOnEmptyPosition ==
    /\ last.kind = "claim" /\ last.err = "InsufficientStake"
    /\ user_stake[last.owner].exists

\* What the claim of this step pays to the owner.
ClaimPaid == user_reward'[last'.owner] - user_reward[last'.owner]

\* floor(pending * multiplier_bps(tier(staked_amount)) / 10000) for the
\* claiming position, pending taken against the advanced accumulator.
ClaimEntitlement ==
    LET us == user_stake[last'.owner]
        pending == calculate_pending_rewards(
                       us, stake_pool'.accumulated_reward_per_share).val
    IN  (pending * reward_multiplier_bps(calculate_tier(us.staked_amount))) \div 10000

\* C14: a committed claim pays exactly
\* min(floor(pending * multiplier_bps(tier(staked_amount)) / 10000),
\* reward vault balance) with pending taken against the freshly advanced
\* accumulator; pending and the payment are positive; the payment leaves the
\* reward vault, never exceeds its balance, and total_claimed grows by it.
C14_ClaimPaysEntitlement ==
    [][(last'.kind = "claim" /\ last'.err = "Ok") =>
          LET o == last'.owner IN
          /\ stake_pool'.last_reward_time = clock
          /\ calculate_pending_rewards(
                 user_stake[o], stake_pool'.accumulated_reward_per_share).val > 0
          /\ ClaimPaid = Min2(ClaimEntitlement, reward_vault)
          /\ ClaimPaid > 0
          /\ ClaimPaid <= reward_vault
          /\ reward_vault' = reward_vault - ClaimPaid
          /\ user_stake'[o].total_claimed = user_stake[o].total_claimed + ClaimPaid]_vars

\* C14 for the claims whose entitlement fits the 64-bit reward amount.
C14_WhenEntitlementFits ==
    [][(last'.kind = "claim" /\ last'.err = "Ok" /\ ClaimEntitlement <= U64Max) =>
          LET o == last'.owner IN
          /\ stake_pool'.last_reward_time = clock
          /\ calculate_pending_rewards(
                 user_stake[o], stake_pool'.accumulated_reward_per_share).val > 0
          /\ ClaimPaid = Min2(ClaimEntitlement, reward_vault)
          /\ ClaimPaid > 0
          /\ ClaimPaid <= reward_vault
          /\ reward_vault' = reward_vault - ClaimPaid
          /\ user_stake'[o].total_claimed = user_stake[o].total_claimed + ClaimPaid]_vars

\* ------------------------------------------- calculate_weight_multiplier
\* The function applied to every duration and every pair of bounds with
\* 0 <= min <= max up to MaxDuration, and to every whole number of days
\* under the default bounds.
WeightConfigs ==
    {<<mn, mx>> \in (0..MaxDuration) \X (0..MaxDuration) : mn <= mx}
        \cup {<<MIN_LOCK_DURATION, MAX_LOCK_DURATION>>}

WeightDurations(mx) == (-1)..(mx + 1)

InitWeight ==
    /\ initialized = FALSE
    /\ \E c \in WeightConfigs :
           /\ stake_pool = [DefaultPool EXCEPT !.min_lock_duration = c[1],
                                               !.max_lock_duration = c[2]]
           /\ \E d \in WeightDurations(c[2]) : last = Record("input", "-", 0, d, "Ok")
    /\ user_stake = [o \in Owners |-> DefaultUserStake]
    /\ stake_vault = 0
    /\ reward_vault = 0
    /\ user_token = WalletInit
    /\ user_reward = [o \in Owners |-> 0]
    /\ clock = StartTime
    /\ ops = 0
    /\ round_trip = [o \in Owners |-> NoRoundTrip]
    /\ claimed_now = {}
    /\ shortfall = NoShortfall

WeightCall ==
    /\ last.kind = "input"
    /\ last' = [last EXCEPT
                    !.kind = "weight",
                    !.amount = calculate_weight_multiplier(
                                   last.dur, stake_pool.min_lock_duration,
                                   stake_pool.max_lock_duration)]
    /\ UNCHANGED <<initialized, stake_pool, user_stake, stake_vault, reward_vault,
                   user_token, user_reward, clock, ops, round_trip, claimed_now,
                   shortfall>>

SpecWeight == InitWeight /\ [][WeightCall]_vars

\* The parts of C15 that do not depend on whether min = max: the result w
\* for duration d lies in [10000, 20000], is 10000 at and below min, is the
\* value at max above max, does not decrease with d on [min, max], and under
\* the default bounds the midpoint gives a value in [14900, 15100].
WeightShape(d, mn, mx, w) ==
    /\ w >= 10000 /\ w <= 20000
    /\ d <= mn => w = 10000
    /\ d > mx => w = calculate_weight_multiplier(mx, mn, mx)
    /\ \A d2 \in WeightDurations(mx) :
           (mn <= d /\ d <= d2 /\ d2 <= mx)
               => calculate_weight_multiplier(d2, mn, mx) >= w
    /\ (/\ mn = MIN_LOCK_DURATION /\ mx = MAX_LOCK_DURATION
        /\ d = (mn + mx) \div 2) => (w >= 14900 /\ w <= 15100)

\* C15 as stated: for all d and all 0 <= min <= max the weight lies in
\* [10000, 20000], is 10000 at d = min and 20000 at d = max, is monotone on
\* [min, max] and clamps outside; the default midpoint is in [14900, 15100].
C15_WeightEndpoints ==
    last.kind = "weight" =>
        LET d == last.dur
            mn == stake_pool.min_lock_duration
            mx == stake_pool.max_lock_duration
        IN  /\ WeightShape(d, mn, mx, last.amount)
            /\ d = mx => last.amount = 20000

\* C15 amended: as stated, except that the weight is 20000 at d = max only
\* when min < max; when min = max it is 10000 for every d.
C15_WeightInterpolation ==
    last.kind = "weight" =>
        LET d == last.dur
            mn == stake_pool.min_lock_duration
            mx == stake_pool.max_lock_duration
        IN  /\ WeightShape(d, mn, mx, last.amount)
            /\ (d = mx /\ mn < mx) => last.amount = 20000
            /\ mn = mx => last.amount = 10000

\* the default bounds applied to their midpoint, 186 days.
C15_Witness ==
    /\ last.kind = "weight"
    /\ stake_pool.min_lock_duration = MIN_LOCK_DURATION
    /\ stake_pool.max_lock_duration = MAX_LOCK_DURATION
    /\ last.dur = 186
    /\ last.amount = 15000

\* equal bounds: the weight at d = max is 10000.
C15_EqualBounds ==
    /\ last.kind = "weight"
    /\ stake_pool.min_lock_duration = stake_pool.max_lock_duration
    /\ last.dur = stake_pool.max_lock_duration
    /\ last.amount = 10000

\* ------------------------------------------------------ calculate_tier
\* The tier functions applied to every 64-bit staked amount.
InitTier ==
    /\ initialized = FALSE
    /\ stake_pool = DefaultPool
    /\ user_stake = [o \in Owners |-> DefaultUserStake]
    /\ stake_vault = 0
    /\ reward_vault = 0
    /\ user_token = WalletInit
    /\ user_reward = [o \in Owners |-> 0]
    /\ clock = StartTime
    /\ ops = 0
    /\ \E x \in 0..U64Max :
           last = [kind |-> "input", staked_amount |-> x, tier |-> "-",
                   fee |-> 0, multiplier |-> 0]
    /\ round_trip = [o \in Owners |-> NoRoundTrip]
    /\ claimed_now = {}
    /\ shortfall = NoShortfall

TierCall ==
    /\ last.kind = "input"
    /\ LET tier == calculate_tier(last.staked_amount) IN
       last' = [last EXCEPT !.kind = "tier",
                            !.tier = tier,
                            !.fee = platform_fee_bps(tier),
                            !.multiplier = reward_multiplier_bps(tier)]
    /\ UNCHANGED <<initialized, stake_pool, user_stake, stake_vault, reward_vault,
                   user_token, user_reward, clock, ops, round_trip, claimed_now,
                   shortfall>>

SpecTier == InitTier /\ [][TierCall]_vars

TierRank(tier) ==
    CASE tier = "None" -> 0
      [] tier = "Holder" -> 1
      [] tier = "Premium" -> 2
      [] tier = "Vip" -> 3

\* C16: the tier is defined for every staked amount and never falls as the
\* amount grows: None below the Holder threshold, Holder from it up to the
\* Premium threshold, Premium from it up to the Vip threshold, Vip from it
\* on, each threshold belonging to the higher tier; the (platform fee,
\* reward multiplier) pairs are (500, 10000), (400, 11000), (200, 12500),
\* (0, 15000) for None, Holder, Premium, Vip.
C16_TierSteps ==
    last.kind = "tier" =>
        LET x == last.staked_amount
            t == last.tier
        IN  /\ t \in {"None", "Holder", "Premium", "Vip"}
            /\ t = "None" <=> x < HOLDER_THRESHOLD
            /\ t = "Holder" <=> (HOLDER_THRESHOLD <= x /\ x < PREMIUM_THRESHOLD)
            /\ t = "Premium" <=> (PREMIUM_THRESHOLD <= x /\ x < VIP_THRESHOLD)
            /\ t = "Vip" <=> VIP_THRESHOLD <= x
            /\ \A y \in 0..U64Max :
                   y >= x => TierRank(calculate_tier(y)) >= TierRank(t)
            /\ <<last.fee, last.multiplier>> =
                   CASE t = "None" -> <<500, 10000>>
                     [] t = "Holder" -> <<400, 11000>>
                     [] t = "Premium" -> <<200, 12500>>
                     [] t = "Vip" -> <<0, 15000>>

\* a threshold value classified into the higher tier.
C16_Witness ==
    /\ last.kind = "tier"
    /\ last.staked_amount = PREMIUM_THRESHOLD
    /\ last.tier = "Premium"
    /\ last.fee = 200 /\ last.multiplier = 12500

\* floor(amount * weight_bps(lock_duration, min, max) / 10000) for the stake
\* of this step.
StakeWeightedAmount ==
    (last'.amount * calculate_weight_multiplier(
                        last'.dur, stake_pool.min_lock_duration,
                        stake_pool.max_lock_duration)) \div 10000

\* The stake of this step adds amount to the staked amounts and w to the
\* weighted amounts of its position and of the pool.
StakeAdds(w) ==
    LET o == last'.owner IN
    /\ user_stake'[o].staked_amount = user_stake[o].staked_amount + last'.amount
    /\ stake_pool'.total_staked = stake_pool.total_staked + last'.amount
    /\ user_stake'[o].weighted_stake = user_stake[o].weighted_stake + w
    /\ stake_pool'.total_weighted_stake = stake_pool.total_weighted_stake + w

\* C17: a committed stake adds exactly amount to staked_amount and
\* total_staked and exactly floor(amount * weight_bps / 10000) to
\* weighted_stake and total_weighted_stake; at lock_duration = max (max > min)
\* that is 2 * amount and at lock_duration = min it is amount.
C17_StakeAddsWeighted ==
    [][(last'.kind = "stake" /\ last'.err = "Ok") =>
          /\ StakeAdds(StakeWeightedAmount)
          /\ (/\ last'.dur = stake_pool.max_lock_duration
              /\ stake_pool.max_lock_duration > stake_pool.min_lock_duration)
                 => StakeAdds(2 * last'.amount)
          /\ last'.dur = stake_pool.min_lock_duration => StakeAdds(last'.amount)]_vars

\* C17 for the stakes whose weighted amount fits 64 bits.
C17_WhenWeightedFits ==
    [][(last'.kind = "stake" /\ last'.err = "Ok" /\ StakeWeightedAmount <= U64Max) =>
          /\ StakeAdds(StakeWeightedAmount)
          /\ (/\ last'.dur = stake_pool.max_lock_duration
              /\ stake_pool.max_lock_duration > stake_pool.min_lock_duration)
                 => StakeAdds(2 * last'.amount)
          /\ last'.dur = stake_pool.min_lock_duration => StakeAdds(last'.amount)]_vars

\* C18: total_claimed of a position never decreases, changes only in a
\* committed claim of that position, and grows by what that claim moves from
\* the reward vault to the owner, so that it is the sum of those transfers.
C18_TotalClaimedIsSumPaid ==
    [][\A o \in Owners :
          /\ user_stake'[o].total_claimed >= user_stake[o].total_claimed
          /\ user_stake'[o].total_claimed # user_stake[o].total_claimed
                 => (last'.kind = "claim" /\ last'.owner = o /\ last'.err = "Ok")
          /\ user_stake'[o].total_claimed - user_stake[o].total_claimed
                 = user_reward'[o] - user_reward[o]
          /\ user_reward'[o] # user_reward[o]
                 => reward_vault - reward_vault' = user_reward'[o] - user_reward[o]
          /\ user_stake'[o].total_claimed = user_reward'[o]]_vars

\* a committed claim of a position that has been paid, while the other
\* position has not.
C18_Witness ==
    /\ last.kind = "claim" /\ last.err = "Ok"
    /\ user_stake[last.owner].total_claimed = user_reward[last.owner]
    /\ user_stake[last.owner].total_claimed > 1
    /\ reward_vault > 0
    /\ \E o \in Owners : user_stake[o].staked_amount > 0 /\ user_reward[o] = 0

\* C19: a committed claim sets reward_debt to
\* floor(weighted_stake * accumulated_reward_per_share / PRECISION), so the
\* position's pending reward is 0 right after it, also when the vault capped
\* the payment; a further claim of that position with nothing accrued since
\* fails with NoPendingRewards and pays nothing, whatever the reward vault
\* holds by then.
C19_ShortfallForfeited ==
    [][/\ (last'.kind = "claim" /\ last'.err = "Ok") =>
              LET us == user_stake'[last'.owner]
                  acc == stake_pool'.accumulated_reward_per_share
              IN  /\ us.reward_debt = (us.weighted_stake * acc) \div PRECISION
                  /\ calculate_pending_rewards(us, acc) = [err |-> "Ok", val |-> 0]
       /\ (last'.kind = "claim" /\ shortfall[last'.owner] > 0) =>
              /\ last'.err = "NoPendingRewards"
              /\ UNCHANGED Accounts]_vars

\* a claim refused after the vault that capped the position's previous claim
\* was refilled.
C19_Witness ==
    /\ last.kind = "claim" /\ last.err = "NoPendingRewards"
    /\ shortfall[last.owner] > 0
    /\ user_reward[last.owner] > 0
    /\ reward_vault > 0

\* a committed claim that the vault capped.
C19_CappedClaim ==
    /\ last.kind = "claim" /\ last.err = "Ok"
    /\ shortfall[last.owner] > 0
    /\ reward_vault = 0

\* The pending reward of the staking position against the accumulator the
\* stake of this step advanced, before and after the stake's bookkeeping.
PendingBeforeStake ==
    calculate_pending_rewards(user_stake[last'.owner],
                              stake_pool'.accumulated_reward_per_share)

PendingAfterStake ==
    calculate_pending_rewards(user_stake'[last'.owner],
                              stake_pool'.accumulated_reward_per_share)

\* C20: a committed stake leaves the position's pending reward, taken at the
\* same accumulator value, equal to what it was before the stake's
\* bookkeeping; a first stake leaves it 0.
C20_NoRetroactiveReward ==
    [][(/\ last'.kind = "stake" /\ last'.err = "Ok"
        /\ PendingBeforeStake.err = "Ok" /\ PendingAfterStake.err = "Ok") =>
          /\ PendingAfterStake.val = PendingBeforeStake.val
          /\ user_stake[last'.owner].staked_amount = 0 => PendingAfterStake.val = 0]_vars

\* What the code does keep: the stake never lowers the pending reward,
\* raises it by at most one unit, and a first stake leaves it 0.
C20_WithinOneUnit ==
    [][(/\ last'.kind = "stake" /\ last'.err = "Ok"
        /\ PendingBeforeStake.err = "Ok" /\ PendingAfterStake.err = "Ok") =>
          /\ PendingAfterStake.val >= PendingBeforeStake.val
          /\ PendingAfterStake.val <= PendingBeforeStake.val + 1
          /\ user_stake[last'.owner].staked_amount = 0 => PendingAfterStake.val = 0]_vars

\* ------------------------------------------------------ update_rewards
\* The function applied to pools with and without weighted stake, at
\* timestamps before, at and after last_reward_time.
InitUpdate ==
    /\ initialized = TRUE
    /\ \E tw \in {0, 1, 3, 200}, rate \in {0, 1, 250}, acc \in {0, 1, 7, U128Max},
          lrt \in 0..MaxTime :
           stake_pool = [DefaultPool EXCEPT !.total_weighted_stake = tw,
                                            !.total_staked = tw,
                                            !.reward_rate = rate,
                                            !.accumulated_reward_per_share = acc,
                                            !.last_reward_time = lrt,
                                            !.max_lock_duration = 2]
    /\ clock \in 0..MaxTime
    /\ last = [kind |-> "input", err |-> "Ok", before |-> DefaultPool]
    /\ user_stake = [o \in Owners |-> DefaultUserStake]
    /\ stake_vault = 0
    /\ reward_vault = 0
    /\ user_token = WalletInit
    /\ user_reward = [o \in Owners |-> 0]
    /\ ops = 0
    /\ round_trip = [o \in Owners |-> NoRoundTrip]
    /\ claimed_now = {}
    /\ shortfall = NoShortfall

UpdateCall ==
    /\ last.kind \in {"input", "update_rewards"}
    /\ last.err = "Ok"
    /\ ops < 2
    /\ LET r == update_rewards(stake_pool, clock) IN
       /\ stake_pool' = r.pool
       /\ last' = [kind |-> "update_rewards", err |-> r.err, before |-> stake_pool]
    /\ ops' = ops + 1
    /\ UNCHANGED <<initialized, user_stake, stake_vault, reward_vault, user_token,
                   user_reward, clock, round_trip, claimed_now, shortfall>>

SpecUpdate == InitUpdate /\ [][UpdateCall]_vars

\* C21: with total_weighted_stake > 0 and elapsed = now - last_reward_time
\* > 0, update_rewards adds exactly
\* floor(elapsed * reward_rate * PRECISION / total_weighted_stake) to
\* accumulated_reward_per_share and sets last_reward_time = now; with
\* elapsed <= 0 it changes nothing, so a second call at the same timestamp
\* changes nothing and an earlier timestamp never moves last_reward_time back.
C21_AccumulatorStep ==
    last.kind = "update_rewards" =>
        LET b == last.before
            elapsed == clock - b.last_reward_time
        IN  /\ (b.total_weighted_stake > 0 /\ elapsed > 0 /\ last.err = "Ok") =>
                   stake_pool =
                       [b EXCEPT !.accumulated_reward_per_share =
                                     @ + (elapsed * b.reward_rate * PRECISION)
                                             \div b.total_weighted_stake,
                                 !.last_reward_time = clock]
            /\ (b.total_weighted_stake > 0 /\ elapsed <= 0) =>
                   last.err = "Ok" /\ stake_pool = b
            /\ ops = 2 => (last.err = "Ok" => stake_pool = b)
            /\ b.total_weighted_stake > 0 =>
                   stake_pool.last_reward_time >= b.last_reward_time

\* a call at a timestamp before last_reward_time on a pool with stake.
C21_Witness ==
    /\ last.kind = "update_rewards" /\ last.err = "Ok"
    /\ last.before.total_weighted_stake > 0
    /\ last.before.reward_rate > 0
    /\ clock < last.before.last_reward_time
    /\ stake_pool.accumulated_reward_per_share = 7

\* a call that advances a non-zero accumulator.
C21_Advanced ==
    /\ last.kind = "update_rewards" /\ last.err = "Ok"
    /\ last.before.accumulated_reward_per_share = 7
    /\ stake_pool.accumulated_reward_per_share > 7
    /\ stake_pool.last_reward_time = clock

\* The step is a committed stake, unstake or claim.
CommittedOperation ==
    last'.kind \in {"stake", "unstake", "claim"} /\ last'.err = "Ok"

\* C22: a committed operation that finds total_weighted_stake = 0 leaves
\* accumulated_reward_per_share as it was and sets last_reward_time = now;
\* so for a stake into the empty pool at time t, the accumulator e seconds
\* later has grown by floor(e * reward_rate * PRECISION / total_weighted_stake)
\* and the position's pending reward is what that growth gives it, whatever
\* last_reward_time was before t.
C22_IdleTimeForgone ==
    [][(CommittedOperation /\ stake_pool.total_weighted_stake = 0) =>
          /\ stake_pool'.accumulated_reward_per_share
                 = stake_pool.accumulated_reward_per_share
          /\ stake_pool'.last_reward_time = clock
          /\ (last'.kind = "stake" /\ stake_pool'.total_weighted_stake > 0) =>
                 \A e \in 1..MaxTime :
                     LET us == user_stake'[last'.owner]
                         acc == stake_pool.accumulated_reward_per_share
                         grown == acc + (e * stake_pool'.reward_rate * PRECISION)
                                            \div us.weighted_stake
                         r == update_rewards(stake_pool', clock + e)
                     IN  r.err = "Ok" =>
                             /\ r.pool.accumulated_reward_per_share = grown
                             /\ calculate_pending_rewards(us, grown).err = "Ok" =>
                                    calculate_pending_rewards(
                                        us, r.pool.accumulated_reward_per_share).val
                                      = Min2(U64Max,
                                             (us.weighted_stake * grown) \div PRECISION
                                               - (us.weighted_stake * acc) \div PRECISION)]_vars

\* a stake into a pool that had stake, was emptied, and stayed empty for a
\* while.
C22_Witness ==
    /\ last.kind = "stake" /\ last.err = "Ok"
    /\ round_trip[last.owner].staked = 0
    /\ stake_pool.total_staked = user_stake[last.owner].staked_amount
    /\ stake_pool.accumulated_reward_per_share > 0
    /\ stake_pool.last_reward_time = clock
    /\ last.idle > 0

\* The accumulator with the accrual from last_reward_time to now added, at
\* the pool's present weighted total.
AccruedUpTo(sp, now) ==
    IF sp.total_weighted_stake = 0 \/ now <= sp.last_reward_time
    THEN sp.accumulated_reward_per_share
    ELSE sp.accumulated_reward_per_share
             + ((now - sp.last_reward_time) * sp.reward_rate * PRECISION)
                   \div sp.total_weighted_stake

\* C23: a committed stake, unstake or claim works with the accumulator
\* advanced to now from the totals it found: the pool's accumulator after the
\* step is update_rewards of the pool before it, the debt a stake adds, the
\* pending a claim pays and the debt a claim stores are taken at that value,
\* and last_reward_time = now afterwards.
C23_AccumulatorFirst ==
    [][CommittedOperation =>
          LET o == last'.owner
              acc == AccruedUpTo(stake_pool, clock)
          IN  /\ stake_pool'.accumulated_reward_per_share = acc
              /\ stake_pool'.last_reward_time = clock
              /\ last'.kind = "stake" =>
                     user_stake'[o].reward_debt = user_stake[o].reward_debt
                         + ((user_stake'[o].weighted_stake - user_stake[o].weighted_stake)
                                * acc) \div PRECISION
              /\ last'.kind = "claim" =>
                     /\ user_stake'[o].reward_debt
                            = (user_stake[o].weighted_stake * acc) \div PRECISION
                     /\ user_reward'[o] - user_reward[o]
                            = Min2(claim_reward_amount(user_stake[o], acc), reward_vault)]_vars

\* a committed claim that paid reward accrued up to the moment of the claim.
C23_Witness ==
    /\ last.kind = "claim" /\ last.err = "Ok"
    /\ stake_pool.last_reward_time = clock
    /\ user_stake[last.owner].stake_start_time = clock - 1
    /\ stake_pool.total_weighted_stake = user_stake[last.owner].weighted_stake
    /\ user_stake[last.owner].reward_debt > 0
    /\ user_stake[last.owner].total_claimed > 0

\* C24: a committed unstake removes floor(amount * weighted_stake /
\* staked_amount) from the position's weighted_stake and the pool's
\* total_weighted_stake, floor(amount * reward_debt / staked_amount) from the
\* position's reward_debt and amount from staked_amount and total_staked,
\* the ratios taken on the position before the step; an unstake of the whole
\* staked_amount leaves staked_amount, weighted_stake and reward_debt 0.
C24_ProportionalRemoval ==
    [][(last'.kind = "unstake" /\ last'.err = "Ok") =>
          LET o == last'.owner
              amount == last'.amount
              us == user_stake[o]
              w == (amount * us.weighted_stake) \div us.staked_amount
              d == (amount * us.reward_debt) \div us.staked_amount
          IN  /\ user_stake'[o].weighted_stake = us.weighted_stake - w
              /\ stake_pool'.total_weighted_stake = stake_pool.total_weighted_stake - w
              /\ user_stake'[o].reward_debt = us.reward_debt - d
              /\ user_stake'[o].staked_amount = us.staked_amount - amount
              /\ stake_pool'.total_staked = stake_pool.total_staked - amount
              /\ amount = us.staked_amount =>
                     /\ user_stake'[o].staked_amount = 0
                     /\ user_stake'[o].weighted_stake = 0
                     /\ user_stake'[o].reward_debt = 0]_vars

\* a partial unstake of a position that carries reward debt.
C24_Witness ==
    /\ last.kind = "unstake" /\ last.err = "Ok"
    /\ user_stake[last.owner].staked_amount > 0
    /\ user_stake[last.owner].reward_debt > 0
    /\ user_stake[last.owner].weighted_stake >= user_stake[last.owner].staked_amount

\* a full unstake of a position that carried reward debt.
C24_FullUnstake ==
    /\ last.kind = "unstake" /\ last.err = "Ok"
    /\ user_stake[last.owner].staked_amount = 0
    /\ user_stake[last.owner].stake_start_time > StartTime
    /\ stake_pool.accumulated_reward_per_share > 0
    /\ stake_pool.total_staked > 0

\* The balances an operation of owner o must leave alone: those of the other
\* owners, and the accounts of the other token.
OthersUntouched(o) ==
    \A p \in Owners \ {o} :
        user_token'[p] = user_token[p] /\ user_reward'[p] = user_reward[p]

\* C25: a committed stake moves amount from the owner to the stake vault, a
\* committed unstake moves amount from the stake vault to the owner, a
\* committed claim moves the capped reward from the reward vault to the
\* owner, and nothing else moves; a failed operation moves nothing; a
\* transfer that is rejected was requested with the ledger fields already
\* at the values the operation would have committed.
C25_OneTransferLast ==
    [][last'.kind \in {"stake", "unstake", "claim"} =>
          LET o == last'.owner
              amount == last'.amount
          IN  /\ (last'.kind = "stake" /\ last'.err = "Ok") =>
                     /\ user_token'[o] = user_token[o] - amount
                     /\ stake_vault' = stake_vault + amount
                     /\ user_reward'[o] = user_reward[o]
                     /\ reward_vault' = reward_vault
                     /\ OthersUntouched(o)
              /\ (last'.kind = "unstake" /\ last'.err = "Ok") =>
                     /\ user_token'[o] = user_token[o] + amount
                     /\ stake_vault' = stake_vault - amount
                     /\ user_reward'[o] = user_reward[o]
                     /\ reward_vault' = reward_vault
                     /\ OthersUntouched(o)
              /\ (last'.kind = "claim" /\ last'.err = "Ok") =>
                     LET paid == Min2(claim_reward_amount(
                                          user_stake[o],
                                          stake_pool'.accumulated_reward_per_share),
                                      reward_vault)
                     IN  /\ paid > 0
                         /\ user_reward'[o] = user_reward[o] + paid
                         /\ reward_vault' = reward_vault - paid
                         /\ user_token'[o] = user_token[o]
                         /\ stake_vault' = stake_vault
                         /\ OthersUntouched(o)
              /\ last'.err # "Ok" =>
                     UNCHANGED <<user_token, user_reward, stake_vault, reward_vault>>
              /\ (last'.kind = "stake" /\ last'.err = "InsufficientFunds") =>
                     LET r == stake_handler(stake_pool, user_stake[o], clock, amount,
                                            last'.dur, user_token[o])
                         funded == stake_handler(stake_pool, user_stake[o], clock,
                                                 amount, last'.dur, amount)
                     IN  /\ funded.err = "Ok" /\ funded.xfer = amount
                         /\ r.pool = funded.pool /\ r.us = funded.us]_vars

\* a partial unstake paid back from the vault while another position stays
\* staked.
C25_Witness ==
    /\ last.kind = "unstake" /\ last.err = "Ok"
    /\ user_stake[last.owner].staked_amount > 0
    /\ user_token[last.owner]
           = WalletInit[last.owner] - user_stake[last.owner].staked_amount
    /\ \E p \in Owners \ {last.owner} : user_stake[p].staked_amount > 0
    /\ stake_vault = stake_pool.total_staked

\* C26: opening a pool with min_lock_duration < 0 fails with
\* DurationTooShort, else with max_lock_duration < min_lock_duration it fails
\* with DurationTooLong, and no pool is created; otherwise the pool starts
\* with both totals and the accumulator 0, unpaused, last_reward_time = now
\* and the supplied rate and bounds.  Every pool that exists has
\* 0 <= min_lock_duration <= max_lock_duration.
C26_PoolOpening ==
    [][/\ \A rate \in RateSet, mn \in MinSet, mx \in MaxSet :
              Initialize(rate, mn, mx) =>
                  /\ mn < 0 =>
                         /\ last'.err = "DurationTooShort"
                         /\ ~initialized' /\ UNCHANGED Accounts
                  /\ (mn >= 0 /\ mx < mn) =>
                         /\ last'.err = "DurationTooLong"
                         /\ ~initialized' /\ UNCHANGED Accounts
                  /\ (mn >= 0 /\ mx >= mn) =>
                         /\ last'.err = "Ok"
                         /\ initialized'
                         /\ stake_pool' = [total_staked |-> 0,
                                           total_weighted_stake |-> 0,
                                           reward_rate |-> rate,
                                           accumulated_reward_per_share |-> 0,
                                           last_reward_time |-> clock,
                                           min_lock_duration |-> mn,
                                           max_lock_duration |-> mx,
                                           paused |-> FALSE]
       /\ initialized' =>
              /\ 0 <= stake_pool'.min_lock_duration
              /\ stake_pool'.min_lock_duration <= stake_pool'.max_lock_duration]_vars

\* a pool opened some time after the start, before anything was staked.
C26_Witness ==
    /\ last.kind = "initialize" /\ last.err = "Ok"
    /\ initialized
    /\ clock > StartTime
    /\ stake_pool.last_reward_time = clock
    /\ stake_pool.reward_rate = 250
    /\ stake_pool.min_lock_duration = 1 /\ stake_pool.max_lock_duration = 2

\* an opening refused for its bounds.
C26_Refused ==
    /\ last.kind = "initialize" /\ last.err = "DurationTooLong"
    /\ ~initialized /\ stake_pool = DefaultPool

\* C27: the stake vault, empty at the start and moved only by stake and
\* unstake, always holds exactly total_staked, and no unstake is refused for
\* lack of tokens in the vault.
C27_VaultMatchesTotal ==
    /\ stake_vault = stake_pool.total_staked
    /\ ~(last.kind = "unstake" /\ last.err = "InsufficientFunds")

\* one of two staked positions withdrawn in full and paid back in full.
C27_Witness ==
    /\ last.kind = "unstake" /\ last.err = "Ok"
    /\ user_stake[last.owner].staked_amount = 0
    /\ user_token[last.owner] = WalletInit[last.owner]
    /\ \E p \in Owners \ {last.owner} :
           /\ user_stake[p].staked_amount > 0
           /\ stake_vault = user_stake[p].staked_amount

\* Every position's weighted stake lies between its staked amount and twice
\* that, and the pool's weighted total is 0 exactly when its staked total is.
WeightedWithinBounds ==
    /\ \A o \in Owners :
           /\ user_stake[o].staked_amount <= user_stake[o].weighted_stake
           /\ user_stake[o].weighted_stake <= 2 * user_stake[o].staked_amount
           /\ user_stake[o].weighted_stake = 0 <=> user_stake[o].staked_amount = 0
    /\ stake_pool.total_weighted_stake = 0 <=> stake_pool.total_staked = 0

\* The step commits a stake whose weighted amount does not fit 64 bits.
StakeOverflows ==
    /\ last'.kind = "stake" /\ last'.err = "Ok"
    /\ StakeWeightedAmount > U64Max

\* C28: absent 64-bit overflow, staked_amount <= weighted_stake <=
\* 2 * staked_amount for every position in every reachable state, so that
\* weighted_stake = 0 exactly when staked_amount = 0 and total_weighted_stake
\* = 0 exactly when total_staked = 0: the bounds hold at the start and every
\* step that does not overflow keeps them.
C28_WeightedBetweenOneAndTwo ==
    [][(WeightedWithinBounds /\ ~StakeOverflows) => WeightedWithinBounds']_vars

\* a partial unstake of a position staked at mixed weights.
C28_Witness ==
    /\ WeightedWithinBounds
    /\ last.kind = "unstake" /\ last.err = "Ok"
    /\ user_stake[last.owner].staked_amount > 0
    /\ user_stake[last.owner].staked_amount < user_stake[last.owner].weighted_stake
    /\ user_stake[last.owner].weighted_stake
           < 2 * user_stake[last.owner].staked_amount

\* ------------------------------------------------- unstake on a held position
\* The position of owner "a" after the pool opened at StartTime with lock
\* bounds 1 and 2, "a" staked x1 at the maximum lock and x2 at the minimum
\* lock in the same second, the reward vault was funded, and "a" claimed
\* when the lock ended: each step is the handler of that instruction.
HeldOpen(rate) == initialize_handler(DefaultPool, StartTime, rate, 1, 2)

HeldFirst(rate, x1) ==
    stake_handler(HeldOpen(rate).pool, DefaultUserStake, StartTime, x1, 2,
                  WalletInit["a"])

HeldSecond(rate, x1, x2) ==
    stake_handler(HeldFirst(rate, x1).pool, HeldFirst(rate, x1).us, StartTime,
                  x2, 1, WalletInit["a"] - x1)

HeldClaim(rate, x1, x2) ==
    claim_handler(HeldSecond(rate, x1, x2).pool, HeldSecond(rate, x1, x2).us,
                  StartTime + 2, RewardSupply)

HeldRates == 1..12

HeldAmounts == 1..3

InitHeld ==
    /\ initialized = TRUE
    /\ clock = StartTime + 2
    /\ \E rate \in HeldRates, x1 \in HeldAmounts, x2 \in HeldAmounts :
           /\ HeldOpen(rate).err = "Ok"
           /\ HeldFirst(rate, x1).err = "Ok"
           /\ HeldSecond(rate, x1, x2).err = "Ok"
           /\ HeldClaim(rate, x1, x2).err = "Ok"
           /\ stake_pool = HeldClaim(rate, x1, x2).pool
           /\ user_stake = [o \in Owners |->
                                IF o = "a" THEN HeldClaim(rate, x1, x2).us
                                ELSE DefaultUserStake]
           /\ stake_vault = x1 + x2
           /\ reward_vault = RewardSupply - HeldClaim(rate, x1, x2).xfer
           /\ user_token = [WalletInit EXCEPT !["a"] = @ - (x1 + x2)]
           /\ user_reward = [o \in Owners |->
                                 IF o = "a" THEN HeldClaim(rate, x1, x2).xfer ELSE 0]
    /\ ops = 0
    /\ last = Record("claim", "a", 0, 0, "Ok")
    /\ round_trip = [o \in Owners |-> NoRoundTrip]
    /\ claimed_now = {"a"}
    /\ shortfall = NoShortfall

NextHeld == \E amount \in HeldAmounts : Unstake("a", amount)

SpecHeld == InitHeld /\ [][NextHeld]_vars

\* The pending reward of the unstaking position against the accumulator the
\* unstake of this step advanced, before and after the unstake's bookkeeping.
PendingBeforeUnstake ==
    calculate_pending_rewards(user_stake[last'.owner],
                              stake_pool'.accumulated_reward_per_share)

PendingAfterUnstake ==
    calculate_pending_rewards(user_stake'[last'.owner],
                              stake_pool'.accumulated_reward_per_share)

\* C29: a committed unstake leaves total_claimed, the reward vault and the
\* owners' reward balances as they were; the position's pending reward at
\* the same accumulator value is no greater after a partial unstake than
\* before it, and is 0 after a full unstake.
C29_UnstakeDropsRewards ==
    [][(last'.kind = "unstake" /\ last'.err = "Ok") =>
          LET o == last'.owner IN
          /\ user_stake'[o].total_claimed = user_stake[o].total_claimed
          /\ reward_vault' = reward_vault
          /\ user_reward' = user_reward
          /\ (PendingBeforeUnstake.err = "Ok" /\ PendingAfterUnstake.err = "Ok") =>
                 PendingAfterUnstake.val <= PendingBeforeUnstake.val
          /\ user_stake'[o].staked_amount = 0 =>
                 PendingAfterUnstake = [err |-> "Ok", val |-> 0]]_vars

\* What does hold of a committed unstake: nothing is paid and nothing is
\* recorded as claimed, and a full unstake leaves no pending reward.
C29_NoPayout ==
    [][(last'.kind = "unstake" /\ last'.err = "Ok") =>
          LET o == last'.owner IN
          /\ user_stake'[o].total_claimed = user_stake[o].total_claimed
          /\ reward_vault' = reward_vault
          /\ user_reward' = user_reward
          /\ user_stake'[o].staked_amount = 0 =>
                 PendingAfterUnstake = [err |-> "Ok", val |-> 0]]_vars

====
